---- MODULE Spec2Model ----
(***************************************************************************)
(* py_cheat: the section parser (parse_content, src/src/main.rs) and the   *)
(* command layer that looks a sheet up by name and shows one section of it *)
(* (src/src/main.rs and src/src/manager.rs).                               *)
(*                                                                         *)
(* Text is a sequence of one-character strings, so that starts_with,       *)
(* trim_start_matches, split_once, str::lines, str::parse and format! are  *)
(* computed character by character as the standard library computes them.  *)
(* Indices into Vec<&str> are kept 0-based as in the source; At(v, i) is   *)
(* v[i] of the source.                                                     *)
(***************************************************************************)
EXTENDS Integers, Sequences, FiniteSets, TLC

VARIABLES content, result, sheets, op, stdout, stderr, ret

vars == <<content, result, sheets, op, stdout, stderr, ret>>

\* ------------------------------------------------------------------ bounds
\* longest document (in lines) handed to parse_content on its own
MaxLines == 7
\* most section blocks in an embedded sheet
MaxBlocks == 2

\* ------------------------------------------------------- text primitives
NL == "\n"
CR == "\r"

Digits == <<"0", "1", "2", "3", "4", "5", "6", "7", "8", "9">>

IsDigit(c) == \E d \in 1..Len(Digits) : Digits[d] = c

DigitVal(c) == (CHOOSE d \in 1..Len(Digits) : Digits[d] = c) - 1

\* v[i] with the source's 0-based index
At(v, i) == v[i + 1]

\* v[a..b] of the source: elements a .. b-1 (0-based)
Slice(v, a, b) == SubSeq(v, a + 1, b)

\* str::starts_with
starts_with(s, p) == Len(s) >= Len(p) /\ SubSeq(s, 1, Len(p)) = p

\* str::trim_start_matches: strips the prefix p as often as it repeats
RECURSIVE trim_start_matches(_, _)
trim_start_matches(s, p) ==
    IF p # <<>> /\ starts_with(s, p)
    THEN trim_start_matches(SubSeq(s, Len(p) + 1, Len(s)), p)
    ELSE s

\* str::find: 0-based offset of the first occurrence of p in s, or -1
find(s, p) ==
    LET hits == {k \in 0..(Len(s) - Len(p)) : SubSeq(s, k + 1, k + Len(p)) = p}
    IN  IF hits = {} THEN -1
        ELSE CHOOSE k \in hits : \A j \in hits : k <= j

\* str::split_once: None, or Some((before, after)) around the first p
split_once(s, p) ==
    LET k == find(s, p)
    IN  IF k < 0 THEN [some |-> FALSE]
        ELSE [some |-> TRUE,
              before |-> SubSeq(s, 1, k),
              after |-> SubSeq(s, k + Len(p) + 1, Len(s))]

RECURSIVE digits_value(_, _)
digits_value(ds, acc) ==
    IF ds = <<>> THEN acc
    ELSE digits_value(Tail(ds), acc * 10 + DigitVal(Head(ds)))

\* str::parse::<u32>() and str::parse::<usize>() (core::num from_str_radix,
\* radix 10, unsigned): the empty string and a lone sign are errors, one
\* leading '+' is skipped, '-' is an invalid digit for an unsigned type.
\* The texts parsed here have at most three digits, below both types' MAX.
parse_unsigned(s) ==
    IF s = <<>> \/ s = <<"+">> \/ s = <<"-">> THEN [ok |-> FALSE]
    ELSE LET ds == IF Head(s) = "+" THEN Tail(s) ELSE s
         IN  IF \A k \in 1..Len(ds) : IsDigit(ds[k])
             THEN [ok |-> TRUE, val |-> digits_value(ds, 0)]
             ELSE [ok |-> FALSE]

\* [T]::join on strings: the pieces with sep between consecutive ones
RECURSIVE join(_, _)
join(ls, sep) ==
    IF ls = <<>> THEN <<>>
    ELSE IF Len(ls) = 1 THEN ls[1]
    ELSE ls[1] \o sep \o join(Tail(ls), sep)

\* str::lines followed by collect: split at "\n", a trailing "\r" of a line
\* is dropped, and a final line ending yields no empty last line
RECURSIVE split_lines(_, _, _)
split_lines(text, cur, acc) ==
    LET strip(l) == IF l # <<>> /\ l[Len(l)] = CR
                    THEN SubSeq(l, 1, Len(l) - 1) ELSE l
    IN  IF text = <<>>
        THEN IF cur = <<>> THEN acc ELSE Append(acc, strip(cur))
        ELSE IF Head(text) = NL
             THEN split_lines(Tail(text), <<>>, Append(acc, strip(cur)))
             ELSE split_lines(Tail(text), Append(cur, Head(text)), acc)

lines_of(text) == split_lines(text, <<>>, <<>>)

\* ------------------------------------------------------------ parse_content
DelimPrefix == <<"#", " ", "-", "-", "-", "-">>
Marker == <<"#", " ">>
DotSpace == <<".", " ">>

\* the test of the first loop for line i
is_section_start(lines, i) ==
    /\ starts_with(At(lines, i), DelimPrefix)
    /\ i + 1 < Len(lines)
    /\ starts_with(At(lines, i + 1), Marker)
    /\ split_once(trim_start_matches(At(lines, i + 1), Marker), DotSpace).some

\* the first loop: the indices pushed to section_starts, ascending
RECURSIVE find_section_starts(_, _)
find_section_starts(lines, i) ==
    IF i >= Len(lines) THEN <<>>
    ELSE (IF is_section_start(lines, i) THEN <<i>> ELSE <<>>)
         \o find_section_starts(lines, i + 1)

\* end_idx of the i-th entry of section_starts
end_idx_of(lines, section_starts, i) ==
    IF i < Len(section_starts) - 1
    THEN At(section_starts, i + 1)
    ELSE Len(lines)

\* the body of the second loop for one entry: "skip" (no section), a
\* Section, or "panic" (lines[start_idx + 2] out of bounds, or the range
\* start_idx + 3 .. end_idx starting after its end or ending after len)
process_section(lines, start_idx, end_idx) ==
    IF start_idx + 1 >= Len(lines) THEN [kind |-> "skip"]
    ELSE LET title_line == At(lines, start_idx + 1)
             sp == split_once(trim_start_matches(title_line, Marker), DotSpace)
         IN  IF ~sp.some THEN [kind |-> "skip"]
             ELSE IF ~parse_unsigned(sp.before).ok THEN [kind |-> "skip"]
             ELSE IF start_idx + 2 >= Len(lines) THEN [kind |-> "panic"]
             ELSE IF start_idx + 3 > end_idx \/ end_idx > Len(lines)
                  THEN [kind |-> "panic"]
             ELSE [kind |-> "section",
                   section |->
                     [title |-> sp.after,
                      content |->
                         At(lines, start_idx) \o <<NL>> \o title_line \o <<NL>>
                         \o At(lines, start_idx + 2) \o <<NL>>
                         \o join(Slice(lines, start_idx + 3, end_idx), <<NL>>)]]

\* the second loop from entry i on, sections holding what was pushed so far
RECURSIVE process_sections(_, _, _, _)
process_sections(lines, section_starts, i, sections) ==
    IF i >= Len(section_starts) THEN [kind |-> "Ok", sections |-> sections]
    ELSE LET r == process_section(lines, At(section_starts, i),
                                  end_idx_of(lines, section_starts, i))
         IN  IF r.kind = "panic" THEN [kind |-> "panic"]
             ELSE process_sections(lines, section_starts, i + 1,
                    IF r.kind = "section" THEN Append(sections, r.section)
                    ELSE sections)

parse_content(text) ==
    LET lines == lines_of(text)
    IN  process_sections(lines, find_section_starts(lines, 0), 0, <<>>)

\* ------------------------------------------------- documents handed to parse
\* the lines documents are built from
LineD  == <<"#", " ", "-", "-", "-", "-">>
LineH1 == <<"#", " ", "1", ".", " ", "A">>
LineH2 == <<"#", " ", "2", ".", " ", "B">>
LineHX == <<"#", " ", "e", ".", " ", "g">>
LineX  == <<"x">>

LinePool == {LineD, LineH1, LineH2, LineHX, LineX}

LineSeqs(n) == UNION {[1..k -> LinePool] : k \in 0..n}

\* a document: its lines separated by line breaks, with or without a final one
Document(ls, final_nl) == join(ls, <<NL>>) \o (IF final_nl THEN <<NL>> ELSE <<>>)

NoResult == [kind |-> "none"]
NoOp == [fn |-> "none"]
NoSheets == [n \in {} |-> <<>>]

\* ------------------------------------------------ specification of the parser
ParseInit ==
    /\ \E ls \in LineSeqs(MaxLines), final_nl \in BOOLEAN :
          content = Document(ls, final_nl)
    /\ result = NoResult
    /\ sheets = NoSheets
    /\ op = NoOp
    /\ stdout = <<>>
    /\ stderr = <<>>
    /\ ret = NoResult

\* one call parse_content(content)
ParseContent ==
    /\ result = NoResult
    /\ result' = parse_content(content)
    /\ UNCHANGED <<content, sheets, op, stdout, stderr, ret>>

ParseNext == ParseContent

ParseSpec == ParseInit /\ [][ParseNext]_vars

\* ------------------------------------------------------- the embedded sheets
\* Basics.py, Intermediate.py and Advanced.py are included at build time and
\* are data, not code: a sheet is an optional preamble line followed by up to
\* MaxBlocks blocks (delimiter, header, delimiter, body), the header carrying
\* a number in or out of order, repeated, or unparsable.
SheetNames == <<"Basics", "Intermediate", "Advanced">>
KnownNames == {SheetNames[k] : k \in 1..Len(SheetNames)}

Block(hdr, body) == <<LineD, hdr, LineD>> \o body

Blocks == {Block(hdr, body) : hdr \in {LineH1, LineH2, LineHX},
                              body \in {<<>>, <<LineX>>}}

RECURSIVE concat(_)
concat(ss) == IF ss = <<>> THEN <<>> ELSE Head(ss) \o concat(Tail(ss))

EmbeddedDocs ==
    {Document(pre \o concat(bs), TRUE) :
        pre \in {<<>>, <<LineX>>},
        bs \in UNION {[1..k -> Blocks] : k \in 0..MaxBlocks}}

FillerDoc == Document(Block(LineH1, <<LineX>>), TRUE)

\* ------------------------------------------------------------------ main.rs
Returned == [kind |-> "return"]
Exited(code) == [kind |-> "exit", code |-> code]
Panicked == [kind |-> "panic"]

Outcome(out, err, r) == [stdout |-> out, stderr |-> err, ret |-> r]

\* get_sheet_content with a last arm that falls back to the first sheet
get_sheet_content_fallback(name) ==
    CASE name = "Basics" -> [some |-> TRUE, content |-> sheets["Basics"]]
      [] name = "Intermediate" -> [some |-> TRUE, content |-> sheets["Intermediate"]]
      [] name = "Advanced" -> [some |-> TRUE, content |-> sheets["Advanced"]]
      [] OTHER -> [some |-> TRUE, content |-> sheets["Basics"]]

get_sheet_content(name) ==
    CASE name = "Basics" -> [some |-> TRUE, content |-> sheets["Basics"]]
      [] name = "Intermediate" -> [some |-> TRUE, content |-> sheets["Intermediate"]]
      [] name = "Advanced" -> [some |-> TRUE, content |-> sheets["Advanced"]]
      [] OTHER -> [some |-> FALSE]

\* show_section without the test section_idx > 0: index 0 - 1 underflows
show_section_zero_unchecked(sheet_name, section_number) ==
    LET c == get_sheet_content(sheet_name)
    IN  IF ~c.some
        THEN Outcome(<<>>, <<"Error: Could not find sheet ", sheet_name>>, Exited(1))
        ELSE LET cheat_sheet == parse_content(c.content)
                 section_idx == parse_unsigned(section_number)
             IN  IF cheat_sheet.kind = "panic" THEN Outcome(<<>>, <<>>, Panicked)
                 ELSE IF ~section_idx.ok
                 THEN Outcome(<<>>, <<"Error: Section number must be a positive integer">>,
                              Exited(1))
                 ELSE IF section_idx.val <= Len(cheat_sheet.sections)
                 THEN IF section_idx.val = 0 THEN Outcome(<<>>, <<>>, Panicked)
                      ELSE Outcome(<<At(cheat_sheet.sections, section_idx.val - 1).content>>,
                                   <<>>, Returned)
                 ELSE Outcome(<<>>, <<"Error: Invalid section number">>, Exited(1))

\* show_section indexing sections[section_idx] instead of [section_idx - 1]
show_section_off_by_one(sheet_name, section_number) ==
    LET c == get_sheet_content(sheet_name)
    IN  IF ~c.some
        THEN Outcome(<<>>, <<"Error: Could not find sheet ", sheet_name>>, Exited(1))
        ELSE LET cheat_sheet == parse_content(c.content)
                 section_idx == parse_unsigned(section_number)
             IN  IF cheat_sheet.kind = "panic" THEN Outcome(<<>>, <<>>, Panicked)
                 ELSE IF ~section_idx.ok
                 THEN Outcome(<<>>, <<"Error: Section number must be a positive integer">>,
                              Exited(1))
                 ELSE IF section_idx.val > 0
                         /\ section_idx.val <= Len(cheat_sheet.sections)
                 THEN IF section_idx.val >= Len(cheat_sheet.sections)
                      THEN Outcome(<<>>, <<>>, Panicked)
                      ELSE Outcome(<<At(cheat_sheet.sections, section_idx.val).content>>,
                                   <<>>, Returned)
                 ELSE Outcome(<<>>, <<"Error: Invalid section number">>, Exited(1))

show_section(sheet_name, section_number) ==
    LET c == get_sheet_content(sheet_name)
    IN  IF ~c.some
        THEN Outcome(<<>>, <<"Error: Could not find sheet ", sheet_name>>, Exited(1))
        ELSE LET cheat_sheet == parse_content(c.content)
                 section_idx == parse_unsigned(section_number)
             IN  IF cheat_sheet.kind = "panic" THEN Outcome(<<>>, <<>>, Panicked)
                 ELSE IF ~section_idx.ok
                 THEN Outcome(<<>>, <<"Error: Section number must be a positive integer">>,
                              Exited(1))
                 ELSE IF section_idx.val > 0
                         /\ section_idx.val <= Len(cheat_sheet.sections)
                 THEN Outcome(<<At(cheat_sheet.sections, section_idx.val - 1).content>>,
                              <<>>, Returned)
                 ELSE Outcome(<<>>, <<"Error: Invalid section number">>, Exited(1))

show_full_sheet(sheet_name) ==
    LET c == get_sheet_content(sheet_name)
    IN  IF c.some
        THEN Outcome(<<c.content \o <<NL>>>>, <<>>, Returned)
        ELSE Outcome(<<>>, <<"Error: Could not find sheet ", sheet_name>>, Exited(1))

\* the lines printed for one sheet's sections: prefix, number, title; "+--"
\* stands for the corner drawn before the last entry, "|--" for the tee
RECURSIVE section_entries(_, _)
section_entries(sections, i) ==
    IF i >= Len(sections) THEN <<>>
    ELSE <<[prefix |-> IF i = Len(sections) - 1 THEN "+--" ELSE "|--",
            number |-> i + 1,
            title |-> At(sections, i).title]>>
         \o section_entries(sections, i + 1)

RECURSIVE list_sheets(_, _)
list_sheets(k, out) ==
    IF k >= Len(SheetNames) THEN Outcome(out, <<>>, Returned)
    ELSE LET sheet == At(SheetNames, k)
             c == get_sheet_content(sheet)
         IN  IF ~c.some THEN list_sheets(k + 1, out)
             ELSE LET cheat_sheet == parse_content(c.content)
                  IN  IF cheat_sheet.kind = "panic" THEN Outcome(out, <<>>, Panicked)
                      ELSE list_sheets(k + 1,
                             out \o <<[sheet |-> sheet]>>
                                 \o section_entries(cheat_sheet.sections, 0))

show_available_sheets == list_sheets(0, <<>>)

\* --------------------------------------------------------------- manager.rs
Ok == [kind |-> "Ok"]
Err(msg) == [kind |-> "Err", msg |-> msg]

manager_get_sheet_content(name) ==
    LET hits == {k \in 1..Len(SheetNames) : SheetNames[k] = name}
    IN  IF hits = {} THEN [some |-> FALSE]
        ELSE [some |-> TRUE,
              content |-> sheets[SheetNames[CHOOSE k \in hits : \A j \in hits : k <= j]]]

\* crate::cheatsheet::CheatSheet::parse and crate::highlighting are not among
\* the sources; they follow sections 4.1 and 4.3 of the specification: a
\* section starts at a delimiter line, a header line "# <positive integer>.
\* <title>" and a delimiter line, and runs to the line before the next start.
IsDelimiterLine(l) == starts_with(l, DelimPrefix)

HeaderRest(l) == SubSeq(l, Len(Marker) + 1, Len(l))

IsHeaderLine(l) == starts_with(l, Marker) /\ find(HeaderRest(l), DotSpace) >= 0

HeaderToken(l) == split_once(HeaderRest(l), DotSpace).before

HeaderTitle(l) == split_once(l, DotSpace).after

IsPositiveInteger(tok) ==
    /\ tok # <<>>
    /\ \A k \in 1..Len(tok) : IsDigit(tok[k])
    /\ digits_value(tok, 0) > 0

IsValidHeader(l) == IsHeaderLine(l) /\ IsPositiveInteger(HeaderToken(l))

IsBlockStart(ls, i) ==
    /\ i + 2 < Len(ls)
    /\ IsDelimiterLine(At(ls, i))
    /\ IsValidHeader(At(ls, i + 1))
    /\ IsDelimiterLine(At(ls, i + 2))

\* the block starts of ls from line i on, ascending
RECURSIVE BlockStarts(_, _)
BlockStarts(ls, i) ==
    IF i >= Len(ls) THEN <<>>
    ELSE (IF IsBlockStart(ls, i) THEN <<i>> ELSE <<>>) \o BlockStarts(ls, i + 1)

\* the lines of the k-th block (0-based k) among the starts bs
BlockLines(ls, bs, k) ==
    Slice(ls, At(bs, k), IF k + 1 < Len(bs) THEN At(bs, k + 1) ELSE Len(ls))

CheatSheet_parse(text) ==
    LET ls == lines_of(text)
        bs == BlockStarts(ls, 0)
    IN  [kind |-> "Ok",
         sections |->
            [k \in 1..Len(bs) |->
                [title |-> HeaderTitle(At(ls, At(bs, k - 1) + 1)),
                 content |-> join(BlockLines(ls, bs, k - 1), <<NL>>)]]]

highlight(text) == [styled |-> text]

format_header(text, emphasized) == [header |-> text, emphasized |-> emphasized]

manager_print_sections(sections) ==
    [k \in 1..Len(sections) |->
        format_header(section_entries(sections, 0)[k], FALSE)]

RECURSIVE manager_list_sheets(_, _)
manager_list_sheets(k, out) ==
    IF k >= Len(SheetNames) THEN Outcome(out, <<>>, Ok)
    ELSE LET cheat_sheet == CheatSheet_parse(sheets[At(SheetNames, k)])
         IN  manager_list_sheets(k + 1,
                out \o <<format_header(At(SheetNames, k), TRUE)>>
                    \o manager_print_sections(cheat_sheet.sections))

manager_show_available_sheets == manager_list_sheets(0, <<>>)

\* show_section taking an unparsable selector as 0 (unwrap_or(0))
manager_show_section_lenient(sheet_name, section_number) ==
    LET c == manager_get_sheet_content(sheet_name)
    IN  IF ~c.some
        THEN Outcome(<<>>, <<>>, Err(<<"Could not find sheet ", sheet_name>>))
        ELSE LET cheat_sheet == CheatSheet_parse(c.content)
                 parsed == parse_unsigned(section_number)
                 section_idx == IF parsed.ok THEN parsed ELSE [ok |-> TRUE, val |-> 0]
             IN  IF section_idx.val = 0
                    \/ section_idx.val > Len(cheat_sheet.sections)
                 THEN Outcome(<<>>, <<>>, Err(<<"Invalid section number">>))
                 ELSE Outcome(
                        <<highlight(At(cheat_sheet.sections, section_idx.val - 1).content)>>,
                        <<>>, Ok)

manager_show_section(sheet_name, section_number) ==
    LET c == manager_get_sheet_content(sheet_name)
    IN  IF ~c.some
        THEN Outcome(<<>>, <<>>, Err(<<"Could not find sheet ", sheet_name>>))
        ELSE LET cheat_sheet == CheatSheet_parse(c.content)
                 section_idx == parse_unsigned(section_number)
             IN  IF ~section_idx.ok
                 THEN Outcome(<<>>, <<>>,
                              Err(<<"Section number must be a positive integer">>))
                 ELSE IF section_idx.val = 0
                         \/ section_idx.val > Len(cheat_sheet.sections)
                 THEN Outcome(<<>>, <<>>, Err(<<"Invalid section number">>))
                 ELSE Outcome(
                        <<highlight(At(cheat_sheet.sections, section_idx.val - 1).content)>>,
                        <<>>, Ok)

manager_show_full_sheet(sheet_name) ==
    LET c == manager_get_sheet_content(sheet_name)
    IN  IF ~c.some
        THEN Outcome(<<>>, <<>>, Err(<<"Could not find sheet ", sheet_name>>))
        ELSE Outcome(<<highlight(c.content), <<NL>>>>, <<>>, Ok)

\* ------------------------------------------- specification of the commands
\* what the user types after the sheet name
Selectors ==
    {<<>>, <<"x">>, <<"-", "1">>, <<"0">>, <<"1">>, <<"2">>, <<"3">>,
     <<"+", "2">>, <<"9">>}

Names == KnownNames \cup {"Other", "basics"}

ArgLists ==
    {<<"py_cheat">>}
    \cup {<<"py_cheat", n>> : n \in Names}
    \cup {<<"py_cheat", n, sel>> : n \in Names, sel \in Selectors}
    \cup {<<"py_cheat", n, sel, sel>> : n \in {"Basics"}, sel \in {<<"1">>}}

Init ==
    /\ \E rich \in KnownNames, d \in EmbeddedDocs :
          sheets = [n \in KnownNames |-> IF n = rich THEN d ELSE FillerDoc]
    /\ op = NoOp
    /\ stdout = <<>>
    /\ stderr = <<>>
    /\ ret = NoResult
    /\ content = <<>>
    /\ result = NoResult

Finish(call, o) ==
    /\ op' = call
    /\ stdout' = o.stdout
    /\ stderr' = o.stderr
    /\ ret' = o.ret
    /\ UNCHANGED <<sheets, content, result>>

\* main: the dispatch on args.len()
Main ==
    /\ op = NoOp
    /\ \E args \in ArgLists :
         Finish([impl |-> "main",
                 fn |-> CASE Len(args) = 1 -> "show_available_sheets"
                          [] Len(args) = 2 -> "show_full_sheet"
                          [] Len(args) = 3 -> "show_section"
                          [] OTHER -> "usage",
                 args |-> Tail(args)],
                CASE Len(args) = 1 -> show_available_sheets
                  [] Len(args) = 2 -> show_full_sheet(args[2])
                  [] Len(args) = 3 -> show_section(args[2], args[3])
                  [] OTHER ->
                       Outcome(<<>>,
                               <<"Usage: py_cheat [sheet_name] [section_number]">>,
                               Exited(1)))

\* the three public operations of CheatSheetManager, called on new()
ManagerShowAvailableSheets ==
    /\ op = NoOp
    /\ Finish([impl |-> "manager", fn |-> "show_available_sheets", args |-> <<>>],
              manager_show_available_sheets)

ManagerShowFullSheet ==
    /\ op = NoOp
    /\ \E n \in Names :
         Finish([impl |-> "manager", fn |-> "show_full_sheet", args |-> <<n>>],
                manager_show_full_sheet(n))

ManagerShowSection ==
    /\ op = NoOp
    /\ \E n \in Names, sel \in Selectors :
         Finish([impl |-> "manager", fn |-> "show_section", args |-> <<n, sel>>],
                manager_show_section(n, sel))

Next ==
    \/ Main
    \/ ManagerShowAvailableSheets
    \/ ManagerShowFullSheet
    \/ ManagerShowSection

Spec == Init /\ [][Next]_vars

\* ======================================================= claims: the parser
Parsed == result # NoResult

DocLines == lines_of(content)

DocBlocks == BlockStarts(DocLines, 0)

\* line i is one of the three head lines of a block
InBlockHead(i) == \E k \in 1..Len(DocBlocks) : i \in DocBlocks[k]..(DocBlocks[k] + 2)

\* a document made of N >= 1 section blocks, after an optional preamble: its
\* block starts are at least three lines apart, and its body lines are
\* neither delimiter lines nor "# <integer>. <title>" header lines
WellFormed ==
    /\ Len(DocBlocks) >= 1
    /\ \A k \in 1..(Len(DocBlocks) - 1) : DocBlocks[k + 1] - DocBlocks[k] >= 3
    /\ \A i \in DocBlocks[1]..(Len(DocLines) - 1) :
          \/ InBlockHead(i)
          \/ ~(IsDelimiterLine(At(DocLines, i)) \/ IsValidHeader(At(DocLines, i)))

\* offset in the text of the first character of line i (0-based)
RECURSIVE LineOffset(_, _)
LineOffset(ls, i) ==
    IF i = 0 THEN 0 ELSE LineOffset(ls, i - 1) + Len(At(ls, i - 1)) + 1

TextFromLine(i) == SubSeq(content, LineOffset(DocLines, i) + 1, Len(content))

ConcatContents(sections) ==
    concat([k \in 1..Len(sections) |-> sections[k].content])

\* the starts the first loop found whose header number parses: the starts
\* that yield a section
AcceptedStarts ==
    SelectSeq(find_section_starts(DocLines, 0),
              LAMBDA st : parse_unsigned(
                  split_once(trim_start_matches(At(DocLines, st + 1), Marker),
                             DotSpace).before).ok)

\* C1: for a document of N >= 1 well-formed blocks, the content fields of
\* the returned sections, concatenated in order with nothing between them,
\* are the text from the first block's opening delimiter to the end of the
\* document, character for character.
C1_RoundTrip ==
    (Parsed /\ WellFormed) =>
        /\ result.kind = "Ok"
        /\ ConcatContents(result.sections) = TextFromLine(DocBlocks[1])

\* C2: parse_content returns Ok for every document, never panicking or
\* indexing outside the lines, and an empty CheatSheet when no start is found.
C2_NeverPanics ==
    Parsed =>
        /\ result.kind = "Ok"
        /\ find_section_starts(DocLines, 0) = <<>> => result.sections = <<>>

\* C3: for a document of N well-formed blocks parse_content returns exactly
\* N sections, the i-th with the title of the i-th block's header (the text
\* after the first ". ") and with exactly the i-th block's lines as content.
C3_OneSectionPerBlock ==
    (Parsed /\ WellFormed) =>
        /\ result.kind = "Ok"
        /\ Len(result.sections) = Len(DocBlocks)
        /\ \A k \in 1..Len(DocBlocks) :
              /\ result.sections[k].title
                    = HeaderTitle(At(DocLines, DocBlocks[k] + 1))
              /\ lines_of(result.sections[k].content)
                    = BlockLines(DocLines, DocBlocks, k - 1)

\* a delimiter line at i followed by a header line whose leading token is
\* not a positive integer
RejectedCandidate(i) ==
    /\ i + 1 < Len(DocLines)
    /\ IsDelimiterLine(At(DocLines, i))
    /\ IsHeaderLine(At(DocLines, i + 1))
    /\ ~IsPositiveInteger(HeaderToken(At(DocLines, i + 1)))

\* C4: when the document holds a delimiter line followed by a header line
\* whose leading token is not a positive integer, parse_content still
\* returns Ok, no returned section has such a header, and every well-formed
\* block of the document still has its section.
C4_MalformedHeaderTolerated ==
    (Parsed /\ \E i \in 0..(Len(DocLines) - 1) : RejectedCandidate(i)) =>
        /\ result.kind = "Ok"
        /\ \A k \in 1..Len(result.sections) :
              IsValidHeader(lines_of(result.sections[k].content)[2])
        /\ Len(result.sections) >= Len(DocBlocks)

\* C9: the content of the section that starts at line i runs through the
\* line before the next start that itself yields a section, or through the
\* last line of the document; a rejected candidate ends no section.
C9_ContentRunsToNextAcceptedStart ==
    (Parsed /\ result.kind = "Ok") =>
        /\ Len(result.sections) = Len(AcceptedStarts)
        /\ \A k \in 1..Len(result.sections) :
              lines_of(result.sections[k].content)
                 = BlockLines(DocLines, AcceptedStarts, k - 1)

\* C10: a section is produced only for a start whose third line is a
\* delimiter line, a delimiter and header at the end of the document produce
\* no section (and no failure), and the closing delimiter of a header that
\* yields a section is not itself the start of a section.
C10_ThreeLinePattern ==
    Parsed =>
        /\ result.kind = "Ok"
        /\ Len(result.sections) = Len(DocBlocks)
        /\ \A k \in 1..Len(AcceptedStarts) :
              /\ IsBlockStart(DocLines, AcceptedStarts[k])
              /\ \A j \in 1..Len(AcceptedStarts) :
                    AcceptedStarts[j] # AcceptedStarts[k] + 2

\* ===================================================== claims: the commands
ShowSectionCalled == op.fn = "show_section"

SheetName == op.args[1]

Selector == op.args[2]

\* the selector is a decimal numeral, with or without a leading plus sign
IsNumeral(sel) ==
    LET ds == IF sel # <<>> /\ Head(sel) = "+" THEN Tail(sel) ELSE sel
    IN  ds # <<>> /\ \A k \in 1..Len(ds) : IsDigit(ds[k])

NumeralValue(sel) == digits_value(IF Head(sel) = "+" THEN Tail(sel) ELSE sel, 0)

SheetLines(name) == lines_of(sheets[name])

SheetBlocks(name) == BlockStarts(SheetLines(name), 0)

\* the lines of a sheet's k-th block (1-based) up to its next delimiter line
RECURSIVE BodyEnd(_, _)
BodyEnd(ls, i) ==
    IF i >= Len(ls) \/ IsDelimiterLine(At(ls, i)) THEN i ELSE BodyEnd(ls, i + 1)

OwnLines(name, k) ==
    LET st == SheetBlocks(name)[k]
    IN  Slice(SheetLines(name), st, BodyEnd(SheetLines(name), st + 3))

\* the error each implementation reports: a line on the error stream and
\* exit status 1 (main.rs), or the Err returned to the caller (manager.rs)
Reported(msg) ==
    \/ op.impl = "main" /\ stderr = <<"Error: " \o msg>> /\ ret = Exited(1)
    \/ op.impl = "manager" /\ stderr = <<>> /\ ret = Err(<<msg>>)

ReportedUnknownSheet(name) ==
    \/ op.impl = "main" /\ stderr = <<"Error: Could not find sheet ", name>>
                        /\ ret = Exited(1)
    \/ op.impl = "manager" /\ stderr = <<>>
                           /\ ret = Err(<<"Could not find sheet ", name>>)

\* C5: for a known sheet and a numeral selector that is 0 or exceeds the
\* number of the sheet's sections, show_section reports "Invalid section
\* number" and writes nothing to standard output.
C5_OutOfRange ==
    (/\ ShowSectionCalled
     /\ SheetName \in KnownNames
     /\ IsNumeral(Selector)
     /\ \/ NumeralValue(Selector) = 0
        \/ NumeralValue(Selector) > Len(SheetBlocks(SheetName)))
    => (stdout = <<>> /\ Reported("Invalid section number"))

C5_Witness ==
    /\ ShowSectionCalled
    /\ op.impl = "main"
    /\ SheetName \in KnownNames
    /\ Selector = <<"0">>
    /\ Len(SheetBlocks(SheetName)) = 2
    /\ stderr = <<"Error: Invalid section number">>

\* C6: for a name outside Basics, Intermediate, Advanced, show_full_sheet
\* and show_section report "Could not find sheet <name>" and write nothing
\* to standard output, whatever the selector.
C6_UnknownDocument ==
    (op.fn \in {"show_section", "show_full_sheet"} /\ SheetName \notin KnownNames)
    => (stdout = <<>> /\ ReportedUnknownSheet(SheetName))

C6_Witness ==
    /\ ShowSectionCalled
    /\ op.impl = "main"
    /\ op.args = <<"Other", <<"1">>>>
    /\ stderr = <<"Error: Could not find sheet ", "Other">>
    /\ ret = Exited(1)

\* C7: for a known sheet and a selector that is no numeral (text, the empty
\* string, a negative number), show_section reports "Section number must be
\* a positive integer" and writes nothing to standard output.
C7_InvalidIndex ==
    (ShowSectionCalled /\ SheetName \in KnownNames /\ ~IsNumeral(Selector))
    => (stdout = <<>> /\ Reported("Section number must be a positive integer"))

C7_Witness ==
    /\ ShowSectionCalled
    /\ op.impl = "manager"
    /\ op.args = <<"Basics", <<"-", "1">>>>
    /\ ret = Err(<<"Section number must be a positive integer">>)

\* the entry numbered k that the listing prints under the sheet name
ListedTitle(name, k) ==
    LET listing == IF op.impl = "main" THEN show_available_sheets.stdout
                   ELSE manager_show_available_sheets.stdout
        head == IF op.impl = "main" THEN [sheet |-> name]
                ELSE format_header(name, TRUE)
        p == CHOOSE q \in 1..Len(listing) : listing[q] = head
        entry == IF op.impl = "main" THEN listing[p + k] ELSE listing[p + k].header
    IN  IF entry.number = k THEN entry.title ELSE <<"?">>

\* C8: for a known sheet with n sections and a selector k in 1..n,
\* show_section succeeds and shows the k-th block with a parsable header in
\* document order, whatever number that header declares, and the listing
\* gives number k to the title of that same block.
C8_KthInScanOrder ==
    (/\ ShowSectionCalled
     /\ SheetName \in KnownNames
     /\ IsNumeral(Selector)
     /\ NumeralValue(Selector) \in 1..Len(SheetBlocks(SheetName)))
    => LET k == NumeralValue(Selector)
           hdr == At(SheetLines(SheetName), SheetBlocks(SheetName)[k] + 1)
       IN  /\ stderr = <<>>
           /\ Len(stdout) = 1
           /\ \/ /\ op.impl = "main"
                 /\ ret = Returned
                 /\ lines_of(stdout[1]) = OwnLines(SheetName, k)
              \/ /\ op.impl = "manager"
                 /\ ret = Ok
                 /\ stdout[1] = highlight(join(
                       BlockLines(SheetLines(SheetName), SheetBlocks(SheetName), k - 1),
                       <<NL>>))
           /\ ListedTitle(SheetName, k) = HeaderTitle(hdr)

C8_Witness ==
    /\ ShowSectionCalled
    /\ op.impl = "main"
    /\ op.args = <<"Basics", <<"1">>>>
    /\ sheets["Basics"]
          = Document(Block(LineHX, <<>>) \o Block(LineH2, <<LineX>>), TRUE)
    /\ stdout = <<join(Block(LineH2, <<LineX>>), <<NL>>)>>

====
